---- MODULE Spec2Model ----
(***************************************************************************)
(* Bulk-import engine of the lead admin panel (EnhancedBulkImport):        *)
(* record parser, batch planner, and the batch orchestrator with retry,    *)
(* checkpointing, pause / resume / cancel.                                 *)
(*                                                                         *)
(* JavaScript runs one task at a time.  Every action below is one task:    *)
(* a user event handler or a timer callback, together with all the promise *)
(* continuations (microtasks) that run before the next task.  The only     *)
(* suspension points are the three awaited timers: the simulated network   *)
(* delay of a submission, the retry backoff and the inter-batch delay.     *)
(***************************************************************************)
EXTENDS Integers, Sequences, FiniteSets, TLC

(* ------------------------------ bounds --------------------------------- *)
\* largest number of lines of a pasted input (one more than a full batch,
\* so that a planned import has two batches)
MaxLines == 101
\* number of processBatches invocations that may be alive at once
MaxLoops == 2
\* number of inputs that may be planned on one orchestrator
MaxPlans == 1
\* number of times the clock may be advanced
MaxTicks == 1
\* number of times the check for a pending import may run
MaxChecks == 1
\* largest record count handed to the batch planner (one more than the
\* upper tier limit, so that every batch size is used)
MaxRecords == 2001
\* lines in a text given to the parser on its own
MaxParseLines == 3
\* processData calls where one import follows another
MaxReplans == 2

(* ------------------------- program constants --------------------------- *)
maxRetries == 3
BatchSizeSmall == 100
BatchSizeMedium == 50
BatchSizeLarge == 25
TierSmall == 500
TierMedium == 2000
MinFields == 4
\* a checkpoint of this age, in milliseconds, or older is not loaded
CacheMaxAge == 3600000
\* this.backoffDelays, and the delay used when the table has no entry
backoffDelays == <<2000, 4000, 6000>>
DefaultBackoff == 6000

(* ------------------------------ strings -------------------------------- *)
\* A string is a sequence of characters; a character is a one-letter string.
TAB == "\t"
SP == " "
DOT == "."
DASH == "-"
LETTER == "a"
DigitChars == <<"0", "1", "2", "3", "4", "5", "6", "7", "8", "9">>

IsDigit(c) == \E d \in 1..Len(DigitChars) : DigitChars[d] = c
IsSpace(c) == c \in {TAB, SP}

\* String.prototype.trim
RECURSIVE TrimLeft(_)
TrimLeft(s) ==
    IF s # <<>> /\ IsSpace(Head(s)) THEN TrimLeft(Tail(s)) ELSE s

RECURSIVE TrimRight(_)
TrimRight(s) ==
    IF s # <<>> /\ IsSpace(s[Len(s)]) THEN TrimRight(SubSeq(s, 1, Len(s) - 1)) ELSE s

Trim(s) == TrimRight(TrimLeft(s))

\* length of the run of characters satisfying the class at the head of s
RECURSIVE TabRun(_)
TabRun(s) == IF s # <<>> /\ Head(s) = TAB THEN 1 + TabRun(Tail(s)) ELSE 0

RECURSIVE SpaceRun(_)
SpaceRun(s) == IF s # <<>> /\ IsSpace(Head(s)) THEN 1 + SpaceRun(Tail(s)) ELSE 0

\* length of the match of /\t+|\s{2,}/ at the head of s (0: no match)
SepLen(s) ==
    IF TabRun(s) > 0 THEN TabRun(s)
    ELSE IF SpaceRun(s) >= 2 THEN SpaceRun(s)
    ELSE 0

\* line.split(/\t+|\s{2,}/): cur is the field being collected
RECURSIVE SplitFrom(_, _)
SplitFrom(s, cur) ==
    IF s = <<>> THEN <<cur>>
    ELSE IF SepLen(s) > 0
         THEN <<cur>> \o SplitFrom(SubSeq(s, SepLen(s) + 1, Len(s)), <<>>)
         ELSE SplitFrom(Tail(s), Append(cur, Head(s)))

SplitFields(line) ==
    LET raw == SplitFrom(line, <<>>)
    IN  [i \in 1..Len(raw) |-> Trim(raw[i])]

\* cpf.replace(/[^\d]/g, '')
\* StripNonDigits that strips nothing: tax ids compared as written
StripNothing(s) == s

RECURSIVE StripNonDigits(_)
StripNonDigits(s) ==
    IF s = <<>> THEN <<>>
    ELSE IF IsDigit(Head(s)) THEN <<Head(s)>> \o StripNonDigits(Tail(s))
    ELSE StripNonDigits(Tail(s))

(* ------------------------------ numbers -------------------------------- *)
\* A parsed number is NaN or a decimal [neg |-> sign, int |-> digits,
\* frac |-> digits] with the trailing zeros of the fraction and the leading
\* zeros of the integer part removed, so that equal numbers have equal
\* representations (0 and -0 are distinct numbers, as in the source's
\* language; both are falsy).
NaN == [nan |-> TRUE]
DefaultPrice == [nan |-> FALSE, neg |-> FALSE, int |-> <<"6", "7">>, frac |-> <<"9">>]
PLUS == "+"

RECURSIVE DigitPrefix(_)
DigitPrefix(s) ==
    IF s # <<>> /\ IsDigit(Head(s)) THEN <<Head(s)>> \o DigitPrefix(Tail(s)) ELSE <<>>

RECURSIVE StripLeadingZeros(_)
StripLeadingZeros(d) ==
    IF d # <<>> /\ Head(d) = "0" THEN StripLeadingZeros(Tail(d)) ELSE d

RECURSIVE StripTrailingZeros(_)
StripTrailingZeros(d) ==
    IF d # <<>> /\ d[Len(d)] = "0" THEN StripTrailingZeros(SubSeq(d, 1, Len(d) - 1)) ELSE d

\* parseFloat on a decimal literal: leading white space is skipped, then
\* the longest prefix [+|-] digits [. digits] is converted and whatever
\* follows it is ignored; NaN when that prefix holds no digit.  (Exponents
\* and the literal Infinity are not modelled: no input of the model holds
\* them.)
ParseFloat(s) ==
    LET t      == TrimLeft(s)
        signed == t # <<>> /\ Head(t) \in {DASH, PLUS}
        u      == IF signed THEN Tail(t) ELSE t
        ip     == DigitPrefix(u)
        rest   == SubSeq(u, Len(ip) + 1, Len(u))
        fp     == IF rest # <<>> /\ Head(rest) = DOT THEN DigitPrefix(Tail(rest)) ELSE <<>>
    IN  IF ip = <<>> /\ fp = <<>> THEN NaN
        ELSE [nan |-> FALSE, neg |-> signed /\ Head(t) = DASH,
              int |-> StripLeadingZeros(ip), frac |-> StripTrailingZeros(fp)]

\* JavaScript truthiness of a number: NaN and 0 are falsy
NumberTruthy(n) == ~n.nan /\ (n.int # <<>> \/ n.frac # <<>>)

(* ------------------------------- parser -------------------------------- *)
\* fields[k], or undefined (modelled by the empty string, which the
\* source's `x || default` treats the same way) when the line is shorter
FieldAt(fields, k) == IF k <= Len(fields) THEN fields[k] ELSE <<>>

\* parseFloat(valor) || 67.9
ValorTotal(valor) == IF NumberTruthy(ParseFloat(valor)) THEN ParseFloat(valor) ELSE DefaultPrice

\* rawData.trim().split('\n').filter(line => line.trim()): the input is given
\* as its sequence of lines; blank lines are dropped before numbering
NonEmptyLines(rawLines) == SelectSeq(rawLines, LAMBDA l : Trim(l) # <<>>)

\* ParseLine that forgets to record the duplicates it drops
ParseLineDroppingDuplicates(st, lines, i) ==
    LET fields   == SplitFields(Trim(lines[i]))
        cleanCPF == StripNonDigits(FieldAt(fields, 4))
    IN  IF Len(fields) < MinFields \/ cleanCPF \in st.seen THEN st
        ELSE [st EXCEPT !.seen = @ \cup {cleanCPF},
                        !.leads = Append(@, [nome_completo |-> FieldAt(fields, 1),
                                             cpf |-> cleanCPF,
                                             valor_total |-> ValorTotal(FieldAt(fields, 6)),
                                             lineNumber |-> i])]

\* ParseLine without the test of the number of fields
ParseLineAcceptingShort(st, lines, i) ==
    LET fields   == SplitFields(Trim(lines[i]))
        cleanCPF == StripNonDigits(FieldAt(fields, 4))
    IN  IF cleanCPF \in st.seen
        THEN [st EXCEPT !.duplicatesRemoved =
                 Append(@, [nome |-> FieldAt(fields, 1), cpf |-> cleanCPF])]
        ELSE [st EXCEPT !.seen = @ \cup {cleanCPF},
                        !.leads = Append(@, [nome_completo |-> FieldAt(fields, 1),
                                             cpf |-> cleanCPF,
                                             valor_total |-> ValorTotal(FieldAt(fields, 6)),
                                             lineNumber |-> i])]

\* one iteration of the for loop of parseRawData, on line i; st holds
\* duplicatesSet (seen), leads and duplicatesRemoved
ParseLine(st, lines, i) ==
    LET fields   == SplitFields(Trim(lines[i]))
        cleanCPF == StripNonDigits(FieldAt(fields, 4))
    IN  IF Len(fields) < MinFields THEN st
        ELSE IF cleanCPF \in st.seen
        THEN [st EXCEPT !.duplicatesRemoved =
                 Append(@, [nome |-> FieldAt(fields, 1), cpf |-> cleanCPF])]
        ELSE [st EXCEPT !.seen = @ \cup {cleanCPF},
                        !.leads = Append(@, [nome_completo |-> FieldAt(fields, 1),
                                             cpf |-> cleanCPF,
                                             valor_total |-> ValorTotal(FieldAt(fields, 6)),
                                             lineNumber |-> i])]

\* the iterations lo..hi in order, left to right.  The range is halved and
\* the state after the left half is bound as an element of a one-element
\* set, so that it is computed once, before the iterations that use it:
\* this keeps the evaluation shallow and changes no result.
RECURSIVE ParseRange(_, _, _, _)
ParseRange(st, lines, lo, hi) ==
    IF lo > hi THEN st
    ELSE IF lo = hi THEN ParseLine(st, lines, lo)
    ELSE LET mid == (lo + hi) \div 2
         IN  CHOOSE r \in {ParseRange(left, lines, mid + 1, hi) :
                              left \in {ParseRange(st, lines, lo, mid)}} : TRUE

parseRawData(rawLines) ==
    LET lines == NonEmptyLines(rawLines)
        st    == ParseRange([seen |-> {}, leads |-> <<>>, duplicatesRemoved |-> <<>>],
                            lines, 1, Len(lines))
    IN  [leads |-> st.leads, duplicatesRemoved |-> st.duplicatesRemoved]

(* ------------------------------- planner ------------------------------- *)
\* determineBatchSize with < for <=: the tier limits fall in the upper tier
determineBatchSizeStrict(totalRecordsArg) ==
    IF totalRecordsArg < TierSmall THEN BatchSizeSmall
    ELSE IF totalRecordsArg < TierMedium THEN BatchSizeMedium
    ELSE BatchSizeLarge

determineBatchSize(totalRecordsArg) ==
    IF totalRecordsArg <= TierSmall THEN BatchSizeSmall
    ELSE IF totalRecordsArg <= TierMedium THEN BatchSizeMedium
    ELSE BatchSizeLarge

Min(a, b) == IF a <= b THEN a ELSE b

\* BatchCount that forgets the last, shorter batch
BatchCountDroppingRemainder(n, size) == n \div size

\* number of iterations of the for loop: i = 0, size, 2*size, ... < length
BatchCount(n, size) == (n + size - 1) \div size

createBatches(data) ==
    LET batchSize == determineBatchSize(Len(data))
    IN  [k \in 1..BatchCount(Len(data), batchSize) |->
            [id |-> k,
             data |-> SubSeq(data, (k - 1) * batchSize + 1, Min(k * batchSize, Len(data))),
             status |-> "pending",
             retryCount |-> 0,
             error |-> "null"]]

(* ------------------------------- store --------------------------------- *)
\* SaveLead without the lookup of the tax id (every record is appended):
\* the slip the store's idempotence must detect
SaveLeadWithoutLookup(st, lead) ==
    [st EXCEPT !.leads = Append(@, lead),
               !.success = Append(@, [nome |-> lead.nome_completo, cpf |-> lead.cpf])]

\* SaveLead that stores the collection after every accepted record
SaveLeadWritingEach(st, lead) ==
    IF \E j \in 1..Len(st.leads) : st.leads[j].cpf = lead.cpf
    THEN [st EXCEPT !.errors = Append(@, [nome |-> lead.nome_completo, cpf |-> lead.cpf,
                                          error |-> "CPF ja existe no sistema"])]
    ELSE [st EXCEPT !.leads = Append(@, lead),
                    !.success = Append(@, [nome |-> lead.nome_completo, cpf |-> lead.cpf]),
                    !.writes = @ + 1]

\* one iteration of the for loop of saveBatchToDatabase, on record lead;
\* st.leads is the parsed copy of the collection, which grows as records
\* are accepted
SaveLead(st, lead) ==
    IF \E j \in 1..Len(st.leads) : st.leads[j].cpf = lead.cpf
    THEN [st EXCEPT !.errors = Append(@, [nome |-> lead.nome_completo, cpf |-> lead.cpf,
                                          error |-> "CPF ja existe no sistema"])]
    ELSE [st EXCEPT !.leads = Append(@, lead),
                    !.success = Append(@, [nome |-> lead.nome_completo, cpf |-> lead.cpf])]

\* the iterations lo..hi in order, evaluated like ParseRange
RECURSIVE SaveRange(_, _, _, _)
SaveRange(st, batchData, lo, hi) ==
    IF lo > hi THEN st
    ELSE IF lo = hi THEN SaveLead(st, batchData[lo])
    ELSE LET mid == (lo + hi) \div 2
         IN  CHOOSE r \in {SaveRange(left, batchData, mid + 1, hi) :
                              left \in {SaveRange(st, batchData, lo, mid)}} : TRUE

\* the read-modify-write of saveBatchToDatabase when no storage call throws:
\* the collection to store, the returned success and errors lists, and the
\* numbers of getItem('leads') and setItem('leads') calls made: one read
\* before the loop, one write after it
saveBatchToDatabase(stored, batchData) ==
    LET done == SaveRange([leads |-> stored, success |-> <<>>, errors |-> <<>>,
                           reads |-> 1, writes |-> 0],
                          batchData, 1, Len(batchData))
    IN  [done EXCEPT !.writes = @ + 1]

(* ------------------------------- state --------------------------------- *)
VARIABLES
    batches,            \* this.batches
    currentBatchIndex,  \* this.currentBatchIndex (0-based)
    totalRecords,       \* this.totalRecords
    processedRecords,   \* this.processedRecords
    successfulRecords,  \* this.successfulRecords
    failedRecords,      \* this.failedRecords
    isProcessing,       \* this.isProcessing
    isPaused,           \* this.isPaused
    results,            \* this.results
    cache,              \* sessionStorage 'bulk_import_cache': <<>> or <<cacheData>>
    leads,              \* localStorage 'leads'
    loops,              \* the live invocations of processBatches
    view,               \* what bulkResultsContainer shows
    controls,           \* TRUE when the panel's controls are enabled
    lastResult,         \* the value returned by the latest saveBatchToDatabase, with
                        \* the numbers of reads and writes of 'leads' it made
    plans,              \* number of processData calls so far
    startTime,          \* this.startTime: <<>> (null) or <<milliseconds>>
    now,                \* Date.now()
    pendingResume,      \* TRUE while the setTimeout of checkPendingImport is pending
    checks,             \* number of checkPendingImport calls so far
    planData,           \* the argument `data` of a direct call of createBatches
    rawData,            \* the argument of a direct call of parseRawData, as lines
    parsed              \* <<>>, or <<the value that call returned>>

vars == <<batches, currentBatchIndex, totalRecords, processedRecords, successfulRecords,
          failedRecords, isProcessing, isPaused, results, cache, leads, loops, view,
          controls, lastResult, plans, startTime, now, pendingResume, checks,
          planData, rawData, parsed>>

\* what the steps of a running session leave alone
ambient == <<now, pendingResume, checks, planData, rawData, parsed>>

LoopIds == 1..MaxLoops

\* A loop is one invocation of processBatches suspended at an await:
\*   pc       "submit"  the network delay of saveBatchToDatabase
\*            "backoff" the retry delay of processBatchWithRetry
\*            "delay"   the inter-batch delay
\*            "none"    the slot holds no invocation
\*   caller   "startImport" when startImport awaits the loop and then calls
\*            finishImport, "none" when the promise is dropped
\*   idx      the cursor value at which the local `batch` was taken
\*   attempt  the local `attempt` of processBatchWithRetry
\*   orphan   <<batch>> when this.batches was replaced while the loop held
\*            its batch: the loop then works on the old object
\*   cancelled  history only, read by no action: a cancel was confirmed
\*            while this invocation was alive
\*   backoff  the milliseconds of the retry delay the loop waits for, 0 when
\*            it waits for none
NoLoop == [pc |-> "none", caller |-> "none", idx |-> 0, attempt |-> 0, orphan |-> <<>>,
           cancelled |-> FALSE, backoff |-> 0]

Live(l) == loops[l].pc # "none"
InFlight(l) == loops[l].pc \in {"submit", "backoff"}
Attached(l) == loops[l].orphan = <<>>

\* the batch object the loop's local variable refers to
LoopBatch(l) == IF Attached(l) THEN batches[loops[l].idx + 1] ELSE loops[l].orphan[1]

NoCache == <<>>
EmptyResults == [success |-> <<>>, errors |-> <<>>, total |-> 0]
NoResult == [failed |-> FALSE, success |-> <<>>, errors |-> <<>>, reads |-> 0, writes |-> 0]
\* saveBatchToDatabase caught an exception of a storage call: nothing was
\* written
FailedResult == [failed |-> TRUE, success |-> <<>>, errors |-> <<>>, reads |-> 1, writes |-> 0]

\* the item saveToCache stores
CacheData(bs, cbi, total, processed, res) ==
    <<[batches |-> bs, totalRecords |-> total, currentBatchIndex |-> cbi,
       processedRecords |-> processed, results |-> res, timestamp |-> now]>>

(* ------------------------------ inputs --------------------------------- *)
\* the decimal numeral of n
RECURSIVE Digits(_)
Digits(n) ==
    IF n < 10 THEN <<DigitChars[n + 1]>>
    ELSE Append(Digits(n \div 10), DigitChars[(n % 10) + 1])

\* a well-formed pasted line: name, email, phone, tax id
GoodLine(i) == <<LETTER, TAB, LETTER, TAB, "1", TAB>> \o Digits(i)

RawInput(n) == [i \in 1..n |-> GoodLine(i)]

\* the pasted texts the model tries: one full batch and one record more
Inputs == {RawInput(MaxLines)}

\* a record already in the collection before any import
StoredLead(i) == [nome_completo |-> <<LETTER>>, cpf |-> Digits(i),
                  valor_total |-> DefaultPrice, lineNumber |-> i]

InitialCollections == {<<>>, <<StoredLead(1)>>}

(* ------------------------------- Init ---------------------------------- *)
Init ==
    /\ batches = <<>>
    /\ currentBatchIndex = 0
    /\ totalRecords = 0
    /\ processedRecords = 0
    /\ successfulRecords = 0
    /\ failedRecords = 0
    /\ isProcessing = FALSE
    /\ isPaused = FALSE
    /\ results = EmptyResults
    /\ cache = NoCache
    /\ leads \in InitialCollections
    /\ loops = [l \in LoopIds |-> NoLoop]
    /\ view = "none"
    /\ controls = TRUE
    /\ lastResult = NoResult
    /\ plans = 0
    /\ startTime = <<>>
    /\ now = 0
    /\ pendingResume = FALSE
    /\ checks = 0
    /\ planData = <<>>
    /\ rawData = <<>>
    /\ parsed = <<>>

(* --------------------------- shared effects ---------------------------- *)
\* the least free loop slot
FreeLoop == CHOOSE l \in LoopIds : ~Live(l) /\ \A k \in LoopIds : ~Live(k) => l <= k

\* LoopEnters without the test of isPaused
LoopEntersIgnoringPause(paused) == currentBatchIndex < Len(batches)

\* the while condition of processBatches, with paused the value of isPaused
\* when it is evaluated
LoopEnters(paused) == currentBatchIndex < Len(batches) /\ ~paused

\* The part of processBatches that runs before its first await when the while
\* condition holds: take batches[cursor], enter processBatchWithRetry
\* (attempt 0), mark the batch processing and wait for the network delay of
\* saveBatchToDatabase.
EnterLoop(caller) ==
    /\ \E l \in LoopIds : ~Live(l)
    /\ batches' = [batches EXCEPT ![currentBatchIndex + 1].status = "processing"]
    /\ loops' = [loops EXCEPT ![FreeLoop] =
                    [pc |-> "submit", caller |-> caller, idx |-> currentBatchIndex,
                     attempt |-> 0, orphan |-> <<>>, cancelled |-> FALSE, backoff |-> 0]]

\* finishImport (clearCache, enableControls, showFinalResults included)
finishImport ==
    /\ isProcessing' = FALSE
    /\ isPaused' = FALSE
    /\ cache' = NoCache
    /\ controls' = TRUE
    /\ view' = "final"

\* LoopReturns when startImport does not go on to finishImport
LoopReturnsWithoutFinish(caller, cacheNow) ==
    /\ cache' = cacheNow
    /\ UNCHANGED <<isProcessing, isPaused, controls, view>>

\* processBatches returns: startImport, when it is the caller, goes on to
\* finishImport; any other caller dropped the promise
LoopReturns(caller, cacheNow) ==
    IF caller = "startImport"
    THEN finishImport
    ELSE /\ cache' = cacheNow
         /\ UNCHANGED <<isProcessing, isPaused, controls, view>>

(* ----------------------------- user events ----------------------------- *)
\* processData: parse, plan, checkpoint (at most `bound` times in a
\* behaviour).  The loops that hold a batch of the replaced array keep
\* working on the old object.
Orphaned(lp, bs) ==
    IF lp.pc \in {"submit", "backoff"} /\ lp.orphan = <<>>
    THEN [lp EXCEPT !.orphan = <<bs[lp.idx + 1]>>]
    ELSE lp

processDataUpTo(rawLines, bound) ==
    /\ controls
    /\ plans < bound
    /\ plans' = plans + 1
    /\ LET parsedData == parseRawData(rawLines)
           planned == createBatches(parsedData.leads)
       IN  /\ totalRecords' = Len(parsedData.leads)
           /\ batches' = planned
           /\ cache' = CacheData(planned, currentBatchIndex, Len(parsedData.leads),
                                 processedRecords, results)
           /\ loops' = [l \in LoopIds |-> Orphaned(loops[l], batches)]
    /\ UNCHANGED <<currentBatchIndex, processedRecords, successfulRecords, failedRecords,
                   isProcessing, isPaused, results, leads, view, controls, lastResult,
                   startTime>>
    /\ UNCHANGED ambient

\* processData, at most MaxPlans times
processData(rawLines) == processDataUpTo(rawLines, MaxPlans)

\* what the promise returned by startImport settles with: `return;` on the
\* early return, the end of the function body otherwise; no path rejects
startImportResult(running) == IF running THEN "undefined" ELSE "undefined"

\* startImport without the test of isProcessing: the call goes on as if no
\* import was running
startImportIgnoringRunning ==
    /\ totalRecords > 0
    /\ isProcessing
    /\ LoopEnters(FALSE)
    /\ isPaused' = FALSE
    /\ controls' = FALSE
    /\ view' = "progress"
    /\ startTime' = <<now>>
    /\ EnterLoop("startImport")
    /\ UNCHANGED <<currentBatchIndex, totalRecords, processedRecords, successfulRecords,
                   failedRecords, isProcessing, results, cache, leads, lastResult, plans>>
    /\ UNCHANGED ambient

\* startImport while an import is running: the early return
startImportAlreadyRunning ==
    /\ totalRecords > 0
    /\ isProcessing
    /\ UNCHANGED vars

\* startImport up to the first await of the loop
startImportEnters ==
    /\ totalRecords > 0
    /\ ~isProcessing
    /\ LoopEnters(FALSE)
    /\ isProcessing' = TRUE
    /\ isPaused' = FALSE
    /\ controls' = FALSE
    /\ view' = "progress"
    /\ startTime' = <<now>>
    /\ EnterLoop("startImport")
    /\ UNCHANGED <<currentBatchIndex, totalRecords, processedRecords, successfulRecords,
                   failedRecords, results, cache, leads, lastResult, plans>>
    /\ UNCHANGED ambient

\* startImport when the cursor is already at the end: the loop body never
\* runs and finishImport follows at once
startImportNothingLeft ==
    /\ totalRecords > 0
    /\ ~isProcessing
    /\ ~LoopEnters(FALSE)
    /\ startTime' = <<now>>
    /\ finishImport
    /\ UNCHANGED <<batches, currentBatchIndex, totalRecords, processedRecords,
                   successfulRecords, failedRecords, results, leads, loops, lastResult, plans>>
    /\ UNCHANGED ambient

startImport == startImportAlreadyRunning \/ startImportEnters \/ startImportNothingLeft

\* togglePause, pausing: only the flag changes
togglePausePauses ==
    /\ view = "progress"
    /\ ~isPaused
    /\ isPaused' = TRUE
    /\ UNCHANGED <<batches, currentBatchIndex, totalRecords, processedRecords,
                   successfulRecords, failedRecords, isProcessing, results, cache, leads,
                   loops, view, controls, lastResult, plans, startTime>>
    /\ UNCHANGED ambient

\* togglePause, resuming: clears the flag and calls processBatches
togglePauseResumes ==
    /\ view = "progress"
    /\ isPaused
    /\ isPaused' = FALSE
    /\ IF LoopEnters(FALSE) THEN EnterLoop("none") ELSE UNCHANGED <<batches, loops>>
    /\ UNCHANGED <<currentBatchIndex, totalRecords, processedRecords, successfulRecords,
                   failedRecords, isProcessing, results, cache, leads, view, controls,
                   lastResult, plans, startTime>>
    /\ UNCHANGED ambient

togglePause == togglePausePauses \/ togglePauseResumes

\* cancelImport that also empties the stored collection
cancelImportErasingCollection(confirmed) ==
    /\ view = "progress"
    /\ IF confirmed
       THEN /\ isPaused' = TRUE
            /\ isProcessing' = FALSE
            /\ cache' = NoCache
            /\ controls' = TRUE
            /\ view' = "partial"
            /\ leads' = <<>>
            /\ loops' = [l \in LoopIds |->
                            IF Live(l) THEN [loops[l] EXCEPT !.cancelled = TRUE] ELSE loops[l]]
       ELSE UNCHANGED <<isPaused, isProcessing, cache, controls, view, loops, leads>>
    /\ UNCHANGED <<batches, currentBatchIndex, totalRecords, processedRecords,
                   successfulRecords, failedRecords, results, lastResult, plans,
                   startTime>>
    /\ UNCHANGED ambient

\* cancelImport that pauses the session before the answer is known
cancelImportPausingFirst(confirmed) ==
    /\ view = "progress"
    /\ isPaused' = TRUE
    /\ IF confirmed
       THEN /\ isProcessing' = FALSE
            /\ cache' = NoCache
            /\ controls' = TRUE
            /\ view' = "partial"
            /\ loops' = [l \in LoopIds |->
                            IF Live(l) THEN [loops[l] EXCEPT !.cancelled = TRUE] ELSE loops[l]]
       ELSE UNCHANGED <<isProcessing, cache, controls, view, loops>>
    /\ UNCHANGED <<batches, currentBatchIndex, totalRecords, processedRecords,
                   successfulRecords, failedRecords, results, leads, lastResult, plans,
                   startTime>>
    /\ UNCHANGED ambient

\* cancelImport: confirmed is the answer to the confirm() dialog
cancelImport(confirmed) ==
    /\ view = "progress"
    /\ IF confirmed
       THEN /\ isPaused' = TRUE
            /\ isProcessing' = FALSE
            /\ cache' = NoCache
            /\ controls' = TRUE
            /\ view' = "partial"
            /\ loops' = [l \in LoopIds |->
                            IF Live(l) THEN [loops[l] EXCEPT !.cancelled = TRUE] ELSE loops[l]]
       ELSE UNCHANGED <<isPaused, isProcessing, cache, controls, view, loops>>
    /\ UNCHANGED <<batches, currentBatchIndex, totalRecords, processedRecords,
                   successfulRecords, failedRecords, results, leads, lastResult, plans,
                   startTime>>
    /\ UNCHANGED ambient

\* the body of resumeImport
ResumeEffects ==
    /\ isPaused' = FALSE
    /\ isProcessing' = TRUE
    /\ view' = "progress"
    /\ IF LoopEnters(FALSE) THEN EnterLoop("none") ELSE UNCHANGED <<batches, loops>>
    /\ UNCHANGED <<currentBatchIndex, totalRecords, processedRecords, successfulRecords,
                   failedRecords, results, cache, leads, controls, lastResult, plans,
                   startTime, now, checks, planData, rawData, parsed>>

\* resumeImport, from the button of the partial results
resumeImport ==
    /\ view = "partial"
    /\ ResumeEffects
    /\ UNCHANGED pendingResume

\* resumeImport, from the timer that checkPendingImport has set
resumeImportTimer ==
    /\ pendingResume
    /\ pendingResume' = FALSE
    /\ ResumeEffects

\* reset, from the panel's clear button
reset ==
    /\ controls
    /\ batches' = <<>>
    /\ currentBatchIndex' = 0
    /\ totalRecords' = 0
    /\ processedRecords' = 0
    /\ successfulRecords' = 0
    /\ failedRecords' = 0
    /\ isProcessing' = FALSE
    /\ isPaused' = FALSE
    /\ results' = EmptyResults
    /\ cache' = NoCache
    /\ controls' = TRUE
    /\ view' = "none"
    /\ loops' = [l \in LoopIds |-> Orphaned(loops[l], batches)]
    /\ startTime' = <<>>
    /\ UNCHANGED <<leads, lastResult, plans>>
    /\ UNCHANGED ambient

(* ------------------------- checkpoint and reload ----------------------- *)
\* the freshness test of loadFromCache with <= for <
FreshIncludingOneHour(cached, time) == time - cached.timestamp <= CacheMaxAge

\* `cacheAge < 3600000` in loadFromCache
Fresh(cached, time) == time - cached.timestamp < CacheMaxAge

\* the value loadFromCache returns
CacheLoads == cache # NoCache /\ Fresh(cache[1], now)

\* loadFromCache: a fresh checkpoint overwrites the five fields it holds (the
\* batches become new objects, so a loop that holds a batch keeps the old
\* one); anything else changes nothing
loadFromCache ==
    IF CacheLoads
    THEN /\ batches' = cache[1].batches
         /\ totalRecords' = cache[1].totalRecords
         /\ currentBatchIndex' = cache[1].currentBatchIndex
         /\ processedRecords' = cache[1].processedRecords
         /\ results' = cache[1].results
         /\ loops' = [l \in LoopIds |-> Orphaned(loops[l], batches)]
    ELSE UNCHANGED <<batches, totalRecords, currentBatchIndex, processedRecords, results,
                    loops>>

\* the session fields of an orchestrator just constructed
Constructed ==
    [batches |-> <<>>, currentBatchIndex |-> 0, totalRecords |-> 0, processedRecords |-> 0,
     successfulRecords |-> 0, failedRecords |-> 0, results |-> EmptyResults]

\* the session fields of a new orchestrator after loadFromCache has taken
\* the fresh checkpoint cached: the five fields that loadFromCache assigns.
\* (The stored item is JSON; every value a checkpoint holds is a string, a
\* finite number other than -0, null, or an array or object of such values,
\* which JSON.parse(JSON.stringify(v)) gives back unchanged.)
Loaded(cached) ==
    [Constructed EXCEPT !.batches = cached.batches,
                        !.totalRecords = cached.totalRecords,
                        !.currentBatchIndex = cached.currentBatchIndex,
                        !.processedRecords = cached.processedRecords,
                        !.results = cached.results]

\* the value hasPendingImport returns, in terms of the state loadFromCache
\* leaves
hasPendingImport == CacheLoads /\ currentBatchIndex' < Len(batches')

\* checkPendingImport (refreshLeads calls it): resume is the answer to the
\* confirm() dialog, asked only when an import is pending
checkPendingImport(resume) ==
    /\ controls
    /\ checks < MaxChecks
    /\ checks' = checks + 1
    /\ loadFromCache
    /\ IF hasPendingImport
       THEN IF resume
            THEN pendingResume' = TRUE /\ UNCHANGED cache
            ELSE cache' = NoCache /\ UNCHANGED pendingResume
       ELSE UNCHANGED <<cache, pendingResume>>
    /\ UNCHANGED <<successfulRecords, failedRecords, isProcessing, isPaused, leads, view,
                   controls, lastResult, plans, startTime, now, planData, rawData, parsed>>

\* the page is loaded again: a new orchestrator, no timer of the old page
\* survives, sessionStorage and localStorage are kept
reload ==
    /\ batches' = <<>>
    /\ currentBatchIndex' = 0
    /\ totalRecords' = 0
    /\ processedRecords' = 0
    /\ successfulRecords' = 0
    /\ failedRecords' = 0
    /\ isProcessing' = FALSE
    /\ isPaused' = FALSE
    /\ results' = EmptyResults
    /\ startTime' = <<>>
    /\ loops' = [l \in LoopIds |-> NoLoop]
    /\ view' = "none"
    /\ controls' = TRUE
    /\ lastResult' = NoResult
    /\ pendingResume' = FALSE
    /\ UNCHANGED <<cache, leads, plans, now, checks, planData, rawData, parsed>>

\* time passes: d milliseconds
Tick(d) ==
    /\ now + d <= MaxTicks * CacheMaxAge
    /\ now' = now + d
    /\ UNCHANGED <<batches, currentBatchIndex, totalRecords, processedRecords,
                   successfulRecords, failedRecords, isProcessing, isPaused, results, cache,
                   leads, loops, view, controls, lastResult, plans, startTime,
                   pendingResume, checks, planData, rawData, parsed>>

\* the steps of the clock the model tries: just under the limit, the limit
TickSteps == {CacheMaxAge - 1, CacheMaxAge}

(* ---------------------------- timer events ---------------------------- *)
\* RetriesLeft with < for <=: one attempt fewer
RetriesLeftOffByOne(attempt) == attempt < maxRetries

\* BackoffDelay reading the table at attempt instead of attempt - 1
BackoffDelayShifted(attempt) ==
    IF attempt + 1 \in 1..Len(backoffDelays) THEN backoffDelays[attempt + 1]
    ELSE DefaultBackoff

\* this.backoffDelays[attempt - 1] || 6000, attempt being the number of
\* failed attempts so far (the table is indexed from 0 in the source)
BackoffDelay(attempt) ==
    IF attempt \in 1..Len(backoffDelays) /\ backoffDelays[attempt] # 0
    THEN backoffDelays[attempt]
    ELSE DefaultBackoff

\* `attempt <= this.maxRetries`, the test of the while loop and of the catch
\* block of processBatchWithRetry
RetriesLeft(attempt) == attempt <= maxRetries

\* assignments to batch.status and batch.error by loop lp: they land in
\* this.batches when the object is still there, in the orphan otherwise
WithStatus(bs, lp, st) ==
    IF lp.orphan = <<>> THEN [bs EXCEPT ![lp.idx + 1].status = st] ELSE bs

WithError(bs, lp, msg) ==
    IF lp.orphan = <<>> THEN [bs EXCEPT ![lp.idx + 1].error = msg] ELSE bs

OrphanWith(lp, st, msg) ==
    IF lp.orphan = <<>> THEN <<>>
    ELSE <<[lp.orphan[1] EXCEPT !.status = st, !.error = msg]>>

\* what follows the end of a batch in processBatches, given the values the
\* iteration has produced so far: checkpoint, advance the cursor, then wait
\* for the inter-batch delay or leave the loop
AfterBatch(l, bs, processed, res) ==
    LET cacheNow == CacheData(bs, currentBatchIndex, totalRecords, processed, res)
    IN  /\ batches' = bs
        /\ processedRecords' = processed
        /\ results' = res
        /\ currentBatchIndex' = currentBatchIndex + 1
        /\ IF currentBatchIndex + 1 < Len(bs)
           THEN /\ loops' = [loops EXCEPT ![l] = [@ EXCEPT !.pc = "delay", !.orphan = <<>>]]
                /\ cache' = cacheNow
                /\ UNCHANGED <<isProcessing, isPaused, controls, view>>
           ELSE /\ loops' = [loops EXCEPT ![l] = NoLoop]
                /\ LoopReturns(loops[l].caller, cacheNow)

\* the network delay of saveBatchToDatabase ends and the storage calls work:
\* the batch is written, processBatchWithRetry returns true.  (The value
\* saveBatchToDatabase returns is bound once, as the element of a
\* one-element set.)
SubmissionSucceeds(l) ==
    /\ loops[l].pc = "submit"
    /\ \E saved \in {saveBatchToDatabase(leads, LoopBatch(l).data)} :
         LET batch == LoopBatch(l)
         IN  /\ leads' = saved.leads
             /\ lastResult' = [failed |-> FALSE, success |-> saved.success,
                              errors |-> saved.errors,
                              reads |-> saved.reads, writes |-> saved.writes]
             /\ successfulRecords' = successfulRecords + Len(batch.data)
             /\ UNCHANGED <<failedRecords, totalRecords, plans, startTime>>
             /\ UNCHANGED ambient
             /\ AfterBatch(l, WithStatus(batches, loops[l], "success"),
                           processedRecords + Len(batch.data),
                           [results EXCEPT !.success = @ \o saved.success])

\* SubmissionFailsRetry for a store that reports failure after it has
\* written the batch
SubmissionFailsRetryAfterWrite(l) ==
    /\ loops[l].pc = "submit"
    /\ RetriesLeft(loops[l].attempt + 1)
    /\ lastResult' = FailedResult
    /\ leads' = saveBatchToDatabase(leads, LoopBatch(l).data).leads
    /\ batches' = WithError(batches, loops[l], "error")
    /\ loops' = [loops EXCEPT ![l] =
                    [@ EXCEPT !.pc = "backoff", !.attempt = @ + 1,
                              !.backoff = BackoffDelay(loops[l].attempt + 1),
                              !.orphan = OrphanWith(loops[l], "processing", "error")]]
    /\ UNCHANGED <<currentBatchIndex, totalRecords, processedRecords, successfulRecords,
                   failedRecords, isProcessing, isPaused, results, cache, view,
                   controls, plans, startTime>>
    /\ UNCHANGED ambient

\* the network delay ends and a storage call throws: saveBatchToDatabase
\* returns {success: false}, processBatchWithRetry throws and catches, and
\* retries are left.  (The only write of saveBatchToDatabase is its last
\* statement before the return of success, so a failure has written
\* nothing.)
SubmissionFailsRetry(l) ==
    /\ loops[l].pc = "submit"
    /\ RetriesLeft(loops[l].attempt + 1)
    /\ lastResult' = FailedResult
    /\ batches' = WithError(batches, loops[l], "error")
    /\ loops' = [loops EXCEPT ![l] =
                    [@ EXCEPT !.pc = "backoff", !.attempt = @ + 1,
                              !.backoff = BackoffDelay(loops[l].attempt + 1),
                              !.orphan = OrphanWith(loops[l], "processing", "error")]]
    /\ UNCHANGED <<currentBatchIndex, totalRecords, processedRecords, successfulRecords,
                   failedRecords, isProcessing, isPaused, results, cache, leads, view,
                   controls, plans, startTime>>
    /\ UNCHANGED ambient

\* SubmissionFailsExhausted without the catch block: the error leaves
\* processBatches, nothing is recorded and nobody finishes the session
SubmissionFailsUncaught(l) ==
    /\ loops[l].pc = "submit"
    /\ ~RetriesLeft(loops[l].attempt + 1)
    /\ lastResult' = FailedResult
    /\ loops' = [loops EXCEPT ![l] = NoLoop]
    /\ UNCHANGED <<batches, currentBatchIndex, totalRecords, processedRecords,
                   successfulRecords, failedRecords, isProcessing, isPaused, results, cache,
                   leads, view, controls, plans, startTime>>
    /\ UNCHANGED ambient

\* the same on the last attempt: one aggregated error entry, the batch ends
\* with status error
SubmissionFailsExhausted(l) ==
    /\ loops[l].pc = "submit"
    /\ ~RetriesLeft(loops[l].attempt + 1)
    /\ LET batch == LoopBatch(l)
       IN  /\ lastResult' = FailedResult
           /\ failedRecords' = failedRecords + Len(batch.data)
           /\ UNCHANGED <<leads, successfulRecords, totalRecords, plans, startTime>>
           /\ UNCHANGED ambient
           /\ AfterBatch(l, WithStatus(WithError(batches, loops[l], "error"), loops[l], "error"),
                         processedRecords,
                         [results EXCEPT !.errors =
                             Append(@, [batch |-> batch.id, error |-> "error",
                                        records |-> Len(batch.data)])])

\* the backoff delay ends: next attempt of the same batch
BackoffElapsed(l) ==
    /\ loops[l].pc = "backoff"
    /\ batches' = WithStatus(batches, loops[l], "processing")
    /\ loops' = [loops EXCEPT ![l] =
                    [@ EXCEPT !.pc = "submit", !.backoff = 0,
                              !.orphan = OrphanWith(loops[l], "processing", "error")]]
    /\ UNCHANGED <<currentBatchIndex, totalRecords, processedRecords, successfulRecords,
                   failedRecords, isProcessing, isPaused, results, cache, leads, view,
                   controls, lastResult, plans, startTime>>
    /\ UNCHANGED ambient

\* the inter-batch delay ends and the while condition holds: next batch
DelayElapsedContinues(l) ==
    /\ loops[l].pc = "delay"
    /\ LoopEnters(isPaused)
    /\ batches' = [batches EXCEPT ![currentBatchIndex + 1].status = "processing"]
    /\ loops' = [loops EXCEPT ![l] =
                    [@ EXCEPT !.pc = "submit", !.idx = currentBatchIndex, !.attempt = 0,
                              !.orphan = <<>>]]
    /\ UNCHANGED <<currentBatchIndex, totalRecords, processedRecords, successfulRecords,
                   failedRecords, isProcessing, isPaused, results, cache, leads, view,
                   controls, lastResult, plans, startTime>>
    /\ UNCHANGED ambient

\* the inter-batch delay ends and the while condition fails (paused, or the
\* cursor is at the end): processBatches returns
DelayElapsedLeaves(l) ==
    /\ loops[l].pc = "delay"
    /\ ~LoopEnters(isPaused)
    /\ loops' = [loops EXCEPT ![l] = NoLoop]
    /\ LoopReturns(loops[l].caller, cache)
    /\ UNCHANGED <<batches, currentBatchIndex, totalRecords, processedRecords,
                   successfulRecords, failedRecords, results, leads, lastResult, plans,
                   startTime>>
    /\ UNCHANGED ambient

(* ---------------------------- specification ---------------------------- *)
Next ==
    \/ \E rawLines \in Inputs : processData(rawLines)
    \/ startImportAlreadyRunning
    \/ startImportEnters
    \/ startImportNothingLeft
    \/ togglePausePauses
    \/ togglePauseResumes
    \/ \E confirmed \in BOOLEAN : cancelImport(confirmed)
    \/ resumeImport
    \/ reset
    \/ \E l \in LoopIds : SubmissionSucceeds(l)
    \/ \E l \in LoopIds : SubmissionFailsRetry(l)
    \/ \E l \in LoopIds : SubmissionFailsExhausted(l)
    \/ \E l \in LoopIds : BackoffElapsed(l)
    \/ \E l \in LoopIds : DelayElapsedContinues(l)
    \/ \E l \in LoopIds : DelayElapsedLeaves(l)

Spec == Init /\ [][Next]_vars

\* The life of a checkpoint: sessions whose submissions all work, together
\* with the clock, page reloads and the check for a pending import.
NextCheckpoint ==
    \/ \E rawLines \in Inputs : processData(rawLines)
    \/ startImportAlreadyRunning
    \/ startImportEnters
    \/ startImportNothingLeft
    \/ togglePausePauses
    \/ togglePauseResumes
    \/ \E confirmed \in BOOLEAN : cancelImport(confirmed)
    \/ resumeImport
    \/ reset
    \/ \E l \in LoopIds : SubmissionSucceeds(l)
    \/ \E l \in LoopIds : DelayElapsedContinues(l)
    \/ \E l \in LoopIds : DelayElapsedLeaves(l)
    \/ \E resume \in BOOLEAN : checkPendingImport(resume)
    \/ resumeImportTimer
    \/ reload
    \/ \E d \in TickSteps : Tick(d)

SpecCheckpoint == Init /\ [][NextCheckpoint]_vars

\* Sessions in which nobody pauses or cancels.  Every timer fires in the end:
\* a pending submission returns (with either result), a backoff and an
\* inter-batch delay elapse.  (The loop waits for the inter-batch delay only
\* when batches remain, so without a pause it always continues after it.)
NextUninterrupted ==
    \/ \E rawLines \in Inputs : processData(rawLines)
    \/ startImportAlreadyRunning
    \/ startImportEnters
    \/ startImportNothingLeft
    \/ reset
    \/ \E l \in LoopIds : SubmissionSucceeds(l)
    \/ \E l \in LoopIds : SubmissionFailsRetry(l)
    \/ \E l \in LoopIds : SubmissionFailsExhausted(l)
    \/ \E l \in LoopIds : BackoffElapsed(l)
    \/ \E l \in LoopIds : DelayElapsedContinues(l)
    \/ \E d \in TickSteps : Tick(d)

SubmissionReturns(l) ==
    SubmissionSucceeds(l) \/ SubmissionFailsRetry(l) \/ SubmissionFailsExhausted(l)

TimersFire ==
    \A l \in LoopIds :
        /\ WF_vars(SubmissionReturns(l))
        /\ WF_vars(BackoffElapsed(l))
        /\ WF_vars(DelayElapsedContinues(l))

SpecUninterrupted == Init /\ [][NextUninterrupted]_vars /\ TimersFire

\* Sessions that are paused, cancelled, resumed and reloaded while every
\* submission works and the stored checkpoint stays fresh.  The timers fire
\* in the end: a pending submission returns, an inter-batch delay elapses,
\* the resume that checkPendingImport has scheduled runs.
NextResumed ==
    \/ \E rawLines \in Inputs : processData(rawLines)
    \/ startImportAlreadyRunning
    \/ startImportEnters
    \/ startImportNothingLeft
    \/ togglePausePauses
    \/ togglePauseResumes
    \/ \E confirmed \in BOOLEAN : cancelImport(confirmed)
    \/ resumeImport
    \/ \E l \in LoopIds : SubmissionSucceeds(l)
    \/ \E l \in LoopIds : DelayElapsedContinues(l)
    \/ \E l \in LoopIds : DelayElapsedLeaves(l)
    \/ \E resume \in BOOLEAN : checkPendingImport(resume)
    \/ resumeImportTimer
    \/ reload

ResumedTimersFire ==
    /\ WF_vars(resumeImportTimer)
    /\ \A l \in LoopIds :
           /\ WF_vars(SubmissionSucceeds(l))
           /\ WF_vars(DelayElapsedContinues(l))
           /\ WF_vars(DelayElapsedLeaves(l))

SpecResumed == Init /\ [][NextResumed]_vars /\ ResumedTimersFire

\* One import after another on the same orchestrator, nobody pausing or
\* cancelling.
NextReplan ==
    \/ \E rawLines \in Inputs : processDataUpTo(rawLines, MaxReplans)
    \/ startImportAlreadyRunning
    \/ startImportEnters
    \/ startImportNothingLeft
    \/ reset
    \/ \E l \in LoopIds : SubmissionSucceeds(l)
    \/ \E l \in LoopIds : SubmissionFailsRetry(l)
    \/ \E l \in LoopIds : SubmissionFailsExhausted(l)
    \/ \E l \in LoopIds : BackoffElapsed(l)
    \/ \E l \in LoopIds : DelayElapsedContinues(l)

SpecReplan == Init /\ [][NextReplan]_vars

\* The batch planner on its own: createBatches applied to record sets of
\* every length up to MaxRecords.  A record is represented by its position.
PlanInputs == {[i \in 1..n |-> i] : n \in 0..MaxRecords}

InitPlanner ==
    /\ batches = <<>>
    /\ currentBatchIndex = 0
    /\ totalRecords = 0
    /\ processedRecords = 0
    /\ successfulRecords = 0
    /\ failedRecords = 0
    /\ isProcessing = FALSE
    /\ isPaused = FALSE
    /\ results = EmptyResults
    /\ cache = NoCache
    /\ leads = <<>>
    /\ loops = [l \in LoopIds |-> NoLoop]
    /\ view = "none"
    /\ controls = TRUE
    /\ lastResult = NoResult
    /\ plans = 0
    /\ startTime = <<>>
    /\ now = 0
    /\ pendingResume = FALSE
    /\ checks = 0
    /\ planData \in PlanInputs
    /\ rawData = <<>>
    /\ parsed = <<>>

\* this.batches = this.createBatches(data), with totalRecords set by the
\* caller as processData and startBulkImportLight do
applyCreateBatches ==
    /\ plans = 0
    /\ plans' = 1
    /\ totalRecords' = Len(planData)
    /\ batches' = createBatches(planData)
    /\ UNCHANGED <<currentBatchIndex, processedRecords, successfulRecords, failedRecords,
                   isProcessing, isPaused, results, cache, leads, loops, view, controls,
                   lastResult, startTime, now, pendingResume, checks, planData, rawData, parsed>>

SpecPlanner == InitPlanner /\ [][applyCreateBatches]_vars

(* ------------------------- the parser on its own ----------------------- *)
\* the fields joined by the separator sep
RECURSIVE JoinFields(_, _)
JoinFields(fields, sep) ==
    IF fields = <<>> THEN <<>>
    ELSE IF Len(fields) = 1 THEN fields[1]
    ELSE fields[1] \o sep \o JoinFields(Tail(fields), sep)

Name == <<LETTER>>
Phone == <<"1">>

\* the kinds of pasted line the model tries
LineKinds ==
    { \* four fields, tax id 123
      JoinFields(<<Name, Name, Phone, <<"1", "2", "3">>>>, <<TAB>>),
      \* the same tax id written 1.2-3, the fields two spaces apart
      JoinFields(<<Name, Name, Phone, <<"1", DOT, "2", DASH, "3">>>>, <<SP, SP>>),
      \* three fields only
      JoinFields(<<Name, Name, Phone>>, <<TAB>>),
      \* tax id 45, value 12.50
      JoinFields(<<Name, Name, Phone, <<"4", "5">>, Name, <<"1", "2", DOT, "5", "0">>>>, <<TAB>>),
      \* tax id 45 again, value not a number
      JoinFields(<<Name, Name, Phone, <<"4", "5">>, Name, <<LETTER>>>>, <<TAB, TAB>>),
      \* tax id 6, value 0
      JoinFields(<<Name, Name, Phone, <<"6">>, Name, <<"0">>>>, <<TAB>>),
      \* tax id 7, value -3
      JoinFields(<<Name, Name, Phone, <<"7">>, Name, <<DASH, "3">>>>, <<TAB>>),
      \* white space only
      <<SP, TAB>> }

RECURSIVE SeqsUpTo(_, _)
SeqsUpTo(S, n) ==
    IF n = 0 THEN {<<>>}
    ELSE LET shorter == SeqsUpTo(S, n - 1)
         IN  shorter \cup {Append(q, x) : q \in shorter, x \in S}

\* the pasted texts: every sequence of at most MaxParseLines lines
ParseInputs == SeqsUpTo(LineKinds, MaxParseLines)

InitParser ==
    /\ batches = <<>>
    /\ currentBatchIndex = 0
    /\ totalRecords = 0
    /\ processedRecords = 0
    /\ successfulRecords = 0
    /\ failedRecords = 0
    /\ isProcessing = FALSE
    /\ isPaused = FALSE
    /\ results = EmptyResults
    /\ cache = NoCache
    /\ leads = <<>>
    /\ loops = [l \in LoopIds |-> NoLoop]
    /\ view = "none"
    /\ controls = TRUE
    /\ lastResult = NoResult
    /\ plans = 0
    /\ startTime = <<>>
    /\ now = 0
    /\ pendingResume = FALSE
    /\ checks = 0
    /\ planData = <<>>
    /\ rawData \in ParseInputs
    /\ parsed = <<>>

\* const parsedData = this.parseRawData(rawData)
applyParseRawData ==
    /\ parsed = <<>>
    /\ parsed' = <<parseRawData(rawData)>>
    /\ UNCHANGED <<batches, currentBatchIndex, totalRecords, processedRecords,
                   successfulRecords, failedRecords, isProcessing, isPaused, results,
                   cache, leads, loops, view, controls, lastResult, plans, startTime,
                   now, pendingResume, checks, planData, rawData>>

SpecParser == InitParser /\ [][applyParseRawData]_vars

(* ------------------------------ properties ----------------------------- *)
LiveLoops == {l \in LoopIds : Live(l)}
Ended(status) == status \in {"success", "error"}

\* in this step the submission loop l was waiting for has returned
Returned(l) == loops[l].pc = "submit" /\ loops'[l].pc # "submit"
\* in this step loop l has run
Acted(l) == loops'[l].pc # loops[l].pc \/ loops'[l].attempt # loops[l].attempt
                \/ loops'[l].idx # loops[l].idx
\* in this step processBatches (loop l) has returned to its caller
LoopLeft(l) == Live(l) /\ loops'[l].pc = "none"

\* C1: at most one batch is in flight: never more than one live
\* batch-processing loop, never two submissions pending at once.
AtMostOneBatchInFlight ==
    /\ Cardinality(LiveLoops) <= 1
    /\ Cardinality({l \in LoopIds : loops[l].pc = "submit"}) <= 1

\* C2: pause/resume round trip: when togglePause resumes after a pause that
\* was requested during batch k, batch k and all batches before it have
\* ended, the loop goes on with a batch that was not processed yet (k+1),
\* and the batches' contents, the cursor, the counters and the results are
\* what they were when batch k ended.
PauseResumeRoundTrip ==
    [][togglePauseResumes =>
          /\ \A l \in LoopIds : ~InFlight(l)
          /\ \A i \in 1..Min(currentBatchIndex, Len(batches)) : Ended(batches[i].status)
          /\ LoopEnters(FALSE) => batches[currentBatchIndex + 1].status = "pending"
          /\ Len(batches') = Len(batches)
          /\ \A i \in 1..Len(batches) : batches'[i].data = batches[i].data
          /\ UNCHANGED <<currentBatchIndex, processedRecords, successfulRecords,
                         failedRecords, results>>]_vars

\* C3: retry exhaustion: an invocation of processBatchWithRetry never submits
\* after maxRetries failures; a failed attempt that is not the
\* (maxRetries + 1)-th adds no error entry and is followed by a backoff; the
\* (maxRetries + 1)-th failed attempt appends exactly one error entry, with
\* the batch's id and record count, and the batch ends with status error.
RetryExhaustion ==
    /\ [](\A l \in LoopIds : InFlight(l) => loops[l].attempt <= maxRetries)
    /\ [][\A l \in LoopIds : (Returned(l) /\ lastResult'.failed) =>
            IF loops[l].attempt + 1 = maxRetries + 1
            THEN /\ results'.errors =
                        Append(results.errors,
                               [batch |-> LoopBatch(l).id, error |-> "error",
                                records |-> Len(LoopBatch(l).data)])
                 /\ results'.success = results.success
                 /\ loops'[l].pc \in {"delay", "none"}
                 /\ Attached(l) => batches'[loops[l].idx + 1].status = "error"
            ELSE /\ results' = results
                 /\ loops'[l].pc = "backoff"
                 /\ loops'[l].attempt = loops[l].attempt + 1]_vars
    /\ [][Len(results'.errors) > Len(results.errors) =>
            \E l \in LoopIds : Returned(l) /\ loops[l].attempt = maxRetries]_vars

\* a batch has just failed on its fourth attempt
RetryExhaustionWitness ==
    /\ Len(results.errors) = 1
    /\ results.errors[1].records = BatchSizeSmall
    /\ lastResult.failed
    /\ failedRecords = BatchSizeSmall
    /\ currentBatchIndex = 1

\* C4: partial failure: when a batch fails on all its attempts it ends with
\* status error, failedRecords grows by the batch's record count, no error
\* was charged for that batch before (exactly once), and the session goes
\* on: the cursor advances and, when a batch follows, the loop waits for the
\* inter-batch delay and then, unless paused, takes the next batch.
PartialFailureContinues ==
    /\ [][\A l \in LoopIds :
            (Returned(l) /\ lastResult'.failed /\ ~RetriesLeft(loops[l].attempt + 1)) =>
                /\ Attached(l) => batches'[loops[l].idx + 1].status = "error"
                /\ failedRecords' = failedRecords + Len(LoopBatch(l).data)
                /\ \A e \in 1..Len(results.errors) :
                       results.errors[e].batch # LoopBatch(l).id
                /\ currentBatchIndex' = currentBatchIndex + 1
                /\ currentBatchIndex' < Len(batches') => loops'[l].pc = "delay"]_vars
    /\ [][\A l \in LoopIds :
            (loops[l].pc = "delay" /\ Acted(l) /\ ~isPaused
                /\ currentBatchIndex < Len(batches)) =>
                /\ loops'[l].pc = "submit"
                /\ loops'[l].idx = currentBatchIndex]_vars

\* C5: finishImport runs only when the cursor has reached the end of the
\* batches: whenever startImport goes on to finishImport (at once, or when
\* the loop it awaited returns) no batch remains at or after the cursor.
FinishOnlyAtEnd ==
    [][(\/ startImportNothingLeft
        \/ \E l \in LoopIds : LoopLeft(l) /\ loops[l].caller = "startImport")
          => ~(currentBatchIndex' < Len(batches'))]_vars

\* C6: when the loop leaves on a pause with batches remaining, the session
\* is paused: isPaused is still true and the checkpoint is still there.
PausedStateKept ==
    [][(/\ isPaused
        /\ view = "progress"
        /\ \E l \in LoopIds : LoopLeft(l)
        /\ currentBatchIndex' < Len(batches'))
          => (isPaused' /\ cache' # NoCache)]_vars

\* C7: pause acts at a batch boundary only: a loop leaves a batch it is
\* processing only by ending it (status success or error), paused or not,
\* and while isPaused holds no batch that is not already being processed by
\* a loop is marked processing.
PauseOnlyAtBoundary ==
    /\ [][\A l \in LoopIds :
            (InFlight(l) /\ ~(loops'[l].pc \in {"submit", "backoff"})) =>
                /\ loops'[l].pc \in {"delay", "none"}
                /\ currentBatchIndex' = currentBatchIndex + 1
                /\ Attached(l) => Ended(batches'[loops[l].idx + 1].status)]_vars
    /\ [][(isPaused /\ isPaused') =>
            \A i \in 1..Len(batches') :
                (/\ batches'[i].status = "processing"
                 /\ (i > Len(batches) \/ batches[i].status # "processing"))
                    => \E l \in LoopIds : InFlight(l) /\ Attached(l) /\ loops[l].idx + 1 = i]_vars

\* a pause was requested while a batch is being retried
PauseOnlyAtBoundaryWitness ==
    /\ isPaused
    /\ view = "progress"
    /\ \E l \in LoopIds : loops[l].pc = "submit" /\ loops[l].attempt = maxRetries
    /\ currentBatchIndex = 0

\* C8: the collection holds at most one record per tax id, and a successful
\* submission rejects every record whose tax id the collection already holds
\* (a per-item error, nothing written for it) and keeps what was stored.
TaxIds(coll) == {coll[i].cpf : i \in 1..Len(coll)}

StoreIdempotent ==
    /\ [](Cardinality(TaxIds(leads)) = Len(leads))
    /\ [][\A l \in LoopIds : (Returned(l) /\ ~lastResult'.failed) =>
            /\ Len(leads') >= Len(leads)
            /\ SubSeq(leads', 1, Len(leads)) = leads
            /\ \A i \in 1..Len(LoopBatch(l).data) :
                   LET cpf == LoopBatch(l).data[i].cpf
                   IN  cpf \in TaxIds(leads) =>
                           /\ \E e \in 1..Len(lastResult'.errors) :
                                  lastResult'.errors[e].cpf = cpf
                           /\ \A j \in (Len(leads) + 1)..Len(leads') : leads'[j].cpf # cpf
                           /\ \A e \in 1..Len(lastResult'.success) :
                                  lastResult'.success[e].cpf # cpf]_vars

\* a submission has found a record whose tax id was already stored
StoreIdempotentWitness ==
    /\ ~lastResult.failed
    /\ Len(lastResult.errors) = 1
    /\ Len(lastResult.success) = BatchSizeSmall - 1
    /\ Len(leads) = BatchSizeSmall

\* C9: a confirmed cancel stops the loop: a loop that was alive when the
\* cancel was confirmed takes no further batch once its batch has ended.
CancelStopsLoop ==
    [][\A l \in LoopIds :
          (loops[l].cancelled /\ loops[l].pc = "delay") => loops'[l].pc # "submit"]_vars

\* C10: a confirmed cancel discards the checkpoint, and the cancelled loop
\* writes none afterwards.
CancelDiscardsCheckpoint ==
    /\ [][cancelImport(TRUE) => cache' = NoCache]_vars
    /\ [][\A l \in LoopIds : (loops[l].cancelled /\ Acted(l)) => cache' = NoCache]_vars

\* C11: cancel keeps the collection: a confirmed cancelImport writes nothing
\* to the stored leads, and from the cancel on (as before it) every stored
\* record stays where it is: later steps only append.
IsPrefix(a, b) == Len(a) <= Len(b) /\ SubSeq(b, 1, Len(a)) = a

CancelKeepsCollection ==
    /\ [][(view = "progress" /\ view' = "partial") => leads' = leads]_vars
    /\ [][IsPrefix(leads, leads')]_vars

\* an import was cancelled after its first batch had been written
CancelKeepsCollectionWitness ==
    /\ view = "partial"
    /\ ~isProcessing
    /\ isPaused
    /\ currentBatchIndex = 1
    /\ Len(leads) >= BatchSizeSmall
    /\ cache = NoCache

\* C12: startImport while isProcessing holds changes nothing: as long as an
\* import is running no step does what a start does: none records a start
\* time, none begins a loop that startImport awaits, none disables the
\* controls.  (The call itself changes no variable at all.)
LoopBegins(l) == ~Live(l) /\ loops'[l].pc # "none"

AlreadyRunningSignalled ==
    (isProcessing /\ totalRecords > 0) =>
        /\ startImportResult(TRUE) = "AlreadyRunning"
        /\ startImportResult(TRUE) # startImportResult(FALSE)

\* C14: termination: when nobody pauses or cancels and every timer fires, an
\* import that startImport has started completes: every batch has ended,
\* the cursor is at the end, finishImport has run (final results shown,
\* controls enabled), isProcessing is false and the checkpoint is cleared.
Completed ==
    /\ ~isProcessing
    /\ ~isPaused
    /\ view = "final"
    /\ controls
    /\ cache = NoCache
    /\ currentBatchIndex = Len(batches)
    /\ \A i \in 1..Len(batches) : Ended(batches[i].status)
    /\ \A l \in LoopIds : ~Live(l)

StartedImportCompletes == isProcessing ~> Completed

\* an import of two batches has completed, the second batch after retries
\* that all failed
StartedImportCompletesWitness ==
    /\ Completed
    /\ Len(batches) = 2
    /\ batches[1].status = "success"
    /\ batches[2].status = "error"
    /\ processedRecords = BatchSizeSmall
    /\ failedRecords = 1

\* C15: checkpoint freshness: the check for a pending import offers a stored
\* checkpoint for resumption (asks, then either schedules the resume or
\* clears the checkpoint) only if the checkpoint is less than one hour old
\* and its cursor is before the end of its batches, and takes the session
\* state from a checkpoint only if it is less than one hour old; with a
\* checkpoint of one hour or more, or none, the check changes nothing.
\* (An offer that is accepted while a resume is already scheduled leaves the
\* schedule as it is.)
CheckRuns == checks' # checks
Offered == (pendingResume' /\ ~pendingResume) \/ (cache # NoCache /\ cache' = NoCache)
Age(cached) == now - cached.timestamp
SessionUnchanged ==
    UNCHANGED <<batches, currentBatchIndex, totalRecords, processedRecords,
                successfulRecords, failedRecords, isProcessing, isPaused, results, cache,
                leads, loops, view, controls, startTime, pendingResume>>

CheckpointFreshness ==
    [][CheckRuns =>
          /\ Offered =>
                 /\ cache # NoCache
                 /\ Age(cache[1]) < CacheMaxAge
                 /\ cache[1].currentBatchIndex < Len(cache[1].batches)
                 /\ currentBatchIndex' = cache[1].currentBatchIndex
                 /\ batches' = cache[1].batches
          /\ (cache # NoCache /\ Age(cache[1]) < CacheMaxAge
                /\ cache[1].currentBatchIndex < Len(cache[1].batches)) =>
                 (Offered \/ (pendingResume /\ pendingResume'))
          /\ (cache = NoCache \/ Age(cache[1]) >= CacheMaxAge) => SessionUnchanged]_vars

\* after a reload the check has found a checkpoint that is exactly one hour
\* old, with batches left, and has not taken it
CheckpointFreshnessWitness ==
    /\ checks = 1
    /\ cache # NoCache
    /\ Age(cache[1]) = CacheMaxAge
    /\ cache[1].currentBatchIndex < Len(cache[1].batches)
    /\ batches = <<>>
    /\ ~pendingResume

\* C16: when a loop ends a batch (success or exhausted failure) the cursor
\* advances by exactly one; the checkpoint written in that step holds the
\* cursor as it was before the advance and that batch's terminal status; the
\* loop waits for the inter-batch delay exactly when batches remain; and no
\* batch is marked processing in that step.  (When startImport goes on to
\* finishImport in the same step the checkpoint is cleared again.)
BatchEnds(l) == InFlight(l) /\ loops'[l].pc \in {"delay", "none"}

CheckpointThenAdvance ==
    [][\A l \in LoopIds : BatchEnds(l) =>
          /\ currentBatchIndex' = currentBatchIndex + 1
          /\ loops'[l].pc = "delay" <=> currentBatchIndex' < Len(batches')
          /\ (loops'[l].pc = "delay" \/ loops[l].caller = "none") =>
                 /\ cache' # NoCache
                 /\ cache'[1].currentBatchIndex = currentBatchIndex
                 /\ loops[l].idx + 1 <= Len(cache'[1].batches)
                 /\ cache'[1].batches[loops[l].idx + 1].id = LoopBatch(l).id
                 /\ Ended(cache'[1].batches[loops[l].idx + 1].status)
          /\ \A i \in 1..Len(batches') :
                 batches'[i].status = "processing" =>
                     i <= Len(batches) /\ batches[i].status = "processing"]_vars

\* C17: the cursor never goes down while a session is active: no step taken
\* while isProcessing holds, and leaving it set, lowers currentBatchIndex.
CursorNeverDecreases ==
    [][(isProcessing /\ isProcessing') => currentBatchIndex' >= currentBatchIndex]_vars

\* C18: completed and cancelled are terminal: once the final or the partial
\* results are shown, no loop takes a batch of the same import (one that has
\* a batch which is no longer pending).
SamePlan == \E i \in 1..Len(batches) : batches[i].status # "pending"
TakesBatch(l) == loops[l].pc \in {"none", "delay"} /\ loops'[l].pc = "submit"

TerminalStatesStay ==
    [][(view \in {"partial", "final"} /\ SamePlan) =>
          \A l \in LoopIds : ~TakesBatch(l)]_vars

Offset(bs) ==
    LET off[k \in 0..Len(bs)] == IF k = 0 THEN 0 ELSE off[k - 1] + Len(bs[k].data)
    IN  off

Partitions(bs, data) ==
    LET off == Offset(bs)
    IN  /\ off[Len(bs)] = Len(data)
        /\ \A k \in 1..Len(bs) :
               /\ bs[k].id = k
               /\ bs[k].data # <<>>
               /\ bs[k].data = SubSeq(data, off[k - 1] + 1, off[k])
               /\ bs[k].status = "pending"
               /\ bs[k].retryCount = 0

PlanPartitions == plans = 1 => Partitions(batches, planData)

\* the largest input has been planned: batches of 25 and a last batch of one
PlanPartitionsWitness ==
    /\ plans = 1
    /\ Len(planData) = MaxRecords
    /\ Len(batches) > MaxRecords \div BatchSizeLarge
    /\ Len(batches[1].data) = BatchSizeLarge
    /\ Len(batches[Len(batches)].data) < BatchSizeLarge

\* C21: batch size by total count: 100 up to 500 records, 50 above 500 and
\* up to 2000, 25 above 2000; the size never grows with the total; every
\* batch but possibly the last has exactly that size (the last one has at
\* most that size); 1200 records give 24 batches of 50.
TierSize(n) == IF n <= 500 THEN 100 ELSE IF n <= 2000 THEN 50 ELSE 25

BatchSizeByTotal ==
    plans = 1 =>
        LET n == Len(planData)
        IN  /\ determineBatchSize(n) = TierSize(n)
            /\ determineBatchSize(n + 1) <= determineBatchSize(n)
            /\ \A k \in 1..Len(batches) :
                   /\ k < Len(batches) => Len(batches[k].data) = TierSize(n)
                   /\ Len(batches[k].data) <= TierSize(n)
            /\ n = 1200 =>
                   /\ Len(batches) = 24
                   /\ \A k \in 1..Len(batches) : Len(batches[k].data) = 50

\* 1200 records have been planned
BatchSizeByTotalWitness ==
    /\ plans = 1
    /\ Len(planData) = 1200
    /\ Len(batches) = 24
    /\ totalRecords = 1200

(* the parser's input seen line by line, for the claims about the parser *)
Lines == NonEmptyLines(rawData)
Indices == [i \in 1..Len(Lines) |-> i]
FieldsOf(i) == SplitFields(Trim(Lines[i]))
WellFormed == {i \in 1..Len(Lines) : Len(FieldsOf(i)) >= 4}
RECURSIVE OnlyDigits(_)
OnlyDigits(s) ==
    IF s = <<>> THEN <<>>
    ELSE (IF Head(s) \in {"0", "1", "2", "3", "4", "5", "6", "7", "8", "9"}
          THEN <<Head(s)>> ELSE <<>>) \o OnlyDigits(Tail(s))
TaxIdOf(i) == OnlyDigits(FieldsOf(i)[4])
FirstOccurrences ==
    {i \in WellFormed : \A j \in WellFormed : j < i => TaxIdOf(j) # TaxIdOf(i)}
Accepted == SelectSeq(Indices, LAMBDA i : i \in FirstOccurrences)
Rejected == SelectSeq(Indices, LAMBDA i : i \in WellFormed \ FirstOccurrences)

\* C22: no two output records share a normalized tax id; of the lines that
\* share one the first is the output record and every later one is in
\* duplicatesRemoved; the output records are in order of first appearance.
ParserDeduplicates ==
    parsed # <<>> =>
        LET out == parsed[1]
        IN  /\ \A j, k \in 1..Len(out.leads) : j # k => out.leads[j].cpf # out.leads[k].cpf
            /\ [k \in 1..Len(out.leads) |-> <<out.leads[k].lineNumber, out.leads[k].cpf>>]
                   = [k \in 1..Len(Accepted) |-> <<Accepted[k], TaxIdOf(Accepted[k])>>]
            /\ [k \in 1..Len(out.duplicatesRemoved) |-> out.duplicatesRemoved[k].cpf]
                   = [k \in 1..Len(Rejected) |-> TaxIdOf(Rejected[k])]

\* three lines with one tax id, written in two ways, have been parsed
ParserDeduplicatesWitness ==
    /\ parsed # <<>>
    /\ Len(rawData) = 3
    /\ Len(parsed[1].leads) = 1
    /\ Len(parsed[1].duplicatesRemoved) = 2
    /\ \E i \in 1..3 : FieldsOf(i)[4] # TaxIdOf(i)

\* C23: the output records and the removed duplicates together are as many
\* as the non-empty lines with at least four fields, and so at most as
\* many as the non-empty lines.
ParserCounts ==
    parsed # <<>> =>
        /\ Len(parsed[1].leads) + Len(parsed[1].duplicatesRemoved) = Cardinality(WellFormed)
        /\ Len(parsed[1].leads) + Len(parsed[1].duplicatesRemoved) <= Len(Lines)
        /\ Len(Lines) <= Len(rawData)

\* a blank line and a short line have been left out
ParserCountsWitness ==
    /\ parsed # <<>>
    /\ Len(rawData) = 3
    /\ Len(Lines) = 2
    /\ Cardinality(WellFormed) = 1
    /\ Len(parsed[1].leads) = 1
    /\ parsed[1].duplicatesRemoved = <<>>

\* what a parse result says, line numbers aside
Told(out) ==
    [leads |-> [k \in 1..Len(out.leads) |->
                   [nome_completo |-> out.leads[k].nome_completo, cpf |-> out.leads[k].cpf,
                    valor_total |-> out.leads[k].valor_total]],
     duplicatesRemoved |-> out.duplicatesRemoved]

\* C24: a line with fewer than four fields gives no record and no
\* duplicate, marks no tax id as seen and does not end the parsing: the
\* result is, line numbers aside, the result for the text without such
\* lines, and every well-formed line is a record or a removed duplicate.
ParserSkipsMalformed ==
    parsed # <<>> =>
        /\ \A k \in 1..Len(parsed[1].leads) : parsed[1].leads[k].lineNumber \in WellFormed
        /\ Told(parsed[1]) =
               Told(parseRawData(SelectSeq(Lines,
                        LAMBDA l : Len(SplitFields(Trim(l))) >= 4)))
        /\ \A i \in WellFormed :
               \/ \E k \in 1..Len(parsed[1].leads) : parsed[1].leads[k].lineNumber = i
               \/ \E j \in WellFormed : j < i /\ TaxIdOf(j) = TaxIdOf(i)

\* a short line came first and the two lines after it became records
ParserSkipsMalformedWitness ==
    /\ parsed # <<>>
    /\ Len(Lines) = 3
    /\ 1 \notin WellFormed
    /\ Len(parsed[1].leads) = 2
    /\ parsed[1].leads[1].lineNumber = 2
    /\ parsed[1].leads[2].lineNumber = 3

\* C25: the record's total value is the number its value field parses to
\* whenever the field parses to a number, and is the default 67.9 exactly
\* when it does not (the field is missing or is not numeric).
ValueDefaulting ==
    parsed # <<>> =>
        \A k \in 1..Len(parsed[1].leads) :
            LET lead  == parsed[1].leads[k]
                valor == FieldAt(FieldsOf(lead.lineNumber), 6)
            IN  IF ParseFloat(valor).nan
                THEN lead.valor_total = DefaultPrice
                ELSE lead.valor_total = ParseFloat(valor)

\* C26: a successful submission reads the collection once and writes it
\* once; what it writes is what it read followed, in batch order, by the
\* batch's records whose tax id was not in the collection.
Saved(l) == Returned(l) /\ lastResult' # NoResult /\ ~lastResult'.failed

OneReadOneWrite ==
    [][\A l \in LoopIds : Saved(l) =>
          /\ lastResult'.reads = 1
          /\ lastResult'.writes = 1
          /\ leads' = leads \o SelectSeq(LoopBatch(l).data,
                                         LAMBDA r : r.cpf \notin TaxIds(leads))]_vars

\* the second batch, of one record, has been written after the first
OneReadOneWriteWitness ==
    /\ ~lastResult.failed
    /\ lastResult.reads = 1
    /\ lastResult.writes = 1
    /\ Len(lastResult.success) = 1
    /\ Len(leads) = MaxLines
    /\ currentBatchIndex = 2

\* C27: retry 1 is preceded by a delay of 2000 ms, retry 2 by 4000 ms,
\* retry 3 by 6000 ms, and an index beyond the table would use 6000 ms; no
\* retry delay follows the final failed attempt or a successful attempt.
Schedule(k) == CASE k = 1 -> 2000 [] k = 2 -> 4000 [] k = 3 -> 6000 [] OTHER -> 6000

BackoffSchedule ==
    /\ [](\A l \in LoopIds :
             IF loops[l].pc = "backoff"
             THEN loops[l].attempt \in 1..3 /\ loops[l].backoff = Schedule(loops[l].attempt)
             ELSE loops[l].backoff = 0)
    /\ [](\A k \in 4..8 : BackoffDelay(k) = Schedule(k))
    /\ [][\A l \in LoopIds : Returned(l) =>
             loops'[l].pc = "backoff" <=> (lastResult'.failed /\ loops[l].attempt < 3)]_vars

\* the third retry is awaited
BackoffScheduleWitness ==
    \E l \in LoopIds :
        /\ loops[l].pc = "backoff"
        /\ loops[l].attempt = 3
        /\ loops[l].backoff = 6000
        /\ lastResult.failed

\* C28: a cancel that is not confirmed changes nothing: wherever the cancel
\* button can be pressed, declining the confirmation is possible and no
\* such step changes any variable (isPaused, isProcessing, the cursor, the
\* counters, the results, the checkpoint, the loops: all of them), so the
\* running loop goes on from the state it was in.
CancelDeclinedChangesNothing ==
    view = "progress" =>
        /\ ENABLED cancelImport(FALSE)
        /\ ~ENABLED <<cancelImport(FALSE)>>_vars

\* a cancel can be declined while a running, unpaused session waits for a
\* retry with a checkpoint stored
CancelDeclinedWitness ==
    /\ view = "progress"
    /\ isProcessing
    /\ ~isPaused
    /\ cache # NoCache
    /\ \E l \in LoopIds : loops[l].pc = "backoff" /\ loops[l].caller = "startImport"

\* C29: every batch is processed exactly once: a batch that has reached
\* status success or error keeps it as long as it is in the plan (no second
\* loop iteration takes it), and every batch the cursor has passed has
\* status success or error (none is skipped).
EveryBatchOnce ==
    /\ [][\A i \in 1..Len(batches) :
             (Ended(batches[i].status) /\ i <= Len(batches')) =>
                 batches'[i].status = batches[i].status]_vars
    /\ [](\A i \in 1..Len(batches) :
             i <= currentBatchIndex => Ended(batches[i].status))

\* C30: resuming from a checkpoint never submits a finished batch again: in
\* every stored checkpoint the cursor is past all the batches stored with
\* status success or error, and no loop takes a batch that has status
\* success or error.
ResumeSkipsFinished ==
    /\ [](cache # NoCache =>
             \A i \in 1..Len(cache[1].batches) :
                 Ended(cache[1].batches[i].status) => i <= cache[1].currentBatchIndex)
    /\ [][\A l \in LoopIds :
             TakesBatch(l) => ~Ended(batches[loops'[l].idx + 1].status)]_vars

\* C31: a resumed session also finishes: when timers fire, a running
\* session whose cursor has reached the end of its batches is finished in
\* the end: isProcessing becomes false and the checkpoint is cleared.  (A
\* loop that startImport awaits is finished in the step in which the
\* cursor reaches the end, so the states on the left are those a loop
\* started by a resume has left behind.)
CursorAtEnd == isProcessing /\ batches # <<>> /\ currentBatchIndex >= Len(batches)

ResumedImportFinishes == CursorAtEnd ~> (~isProcessing /\ cache = NoCache)

\* C32: counter conservation: between batches (no submission or retry
\* pending) successfulRecords is the number of records of the batches with
\* status success, failedRecords that of the batches with status error, and
\* their sum is at most totalRecords; when the import has completed the
\* sum is totalRecords.
RECURSIVE RecordsUpTo(_, _)
RecordsUpTo(k, status) ==
    IF k = 0 THEN 0
    ELSE RecordsUpTo(k - 1, status)
         + (IF batches[k].status = status THEN Len(batches[k].data) ELSE 0)

RecordsWith(status) == RecordsUpTo(Len(batches), status)
BetweenBatches == \A l \in LoopIds : ~InFlight(l)

CounterConservation ==
    /\ BetweenBatches =>
           /\ successfulRecords = RecordsWith("success")
           /\ failedRecords = RecordsWith("error")
           /\ successfulRecords + failedRecords <= totalRecords
    /\ Completed => successfulRecords + failedRecords = totalRecords

\* C33: checkpoint round trip: whenever saveToCache stores a checkpoint,
\* loading it into a new orchestrator gives the session state of the moment
\* of the call: batches, cursor, processedRecords, successfulRecords,
\* failedRecords and results.  (saveToCache is called after the counters
\* and the status of the batch are updated and before the cursor advances.)
CheckpointRoundTrip ==
    [][(cache' # NoCache /\ cache' # cache) =>
          Loaded(cache'[1]) =
              [batches |-> batches', currentBatchIndex |-> currentBatchIndex,
               totalRecords |-> totalRecords', processedRecords |-> processedRecords',
               successfulRecords |-> successfulRecords',
               failedRecords |-> failedRecords', results |-> results']]_vars

\* C34: successfulRecords counts the written records: between batches it
\* is the number of entries of results.success, the records this session
\* has appended to the stored collection, also when some tax ids of a
\* batch were already in the collection.
SuccessCountsWritten ==
    BetweenBatches => successfulRecords = Len(results.success)

\* C35: a new import starts from its first batch: when processData has
\* planned an input, whatever ran before, the cursor is 0 and the counters
\* and the results are empty (so that a start that follows begins with
\* batch 1).
NewImportStartsFresh ==
    [][plans' = plans + 1 =>
          /\ currentBatchIndex' = 0
          /\ processedRecords' = 0
          /\ successfulRecords' = 0
          /\ failedRecords' = 0
          /\ results' = EmptyResults]_vars

\* C36: a failed submission attempt leaves the stored collection as it
\* was: whenever saveBatchToDatabase reports failure it has written
\* nothing, so the retry finds none of the batch's records written by the
\* failed attempt.
FailedAttemptWritesNothing ==
    [][\A l \in LoopIds : (Returned(l) /\ lastResult'.failed) =>
          /\ leads' = leads
          /\ lastResult'.writes = 0]_vars

\* the second retry of the first batch has written all its records and
\* rejected none
FailedAttemptWritesNothingWitness ==
    /\ ~lastResult.failed
    /\ lastResult.errors = <<>>
    /\ Len(lastResult.success) = BatchSizeSmall
    /\ Len(leads) = BatchSizeSmall
    /\ \E l \in LoopIds : loops[l].pc = "delay" /\ loops[l].attempt = 2

\* C37: the check for a pending import is a pure query: a step of
\* checkPendingImport, which calls hasPendingImport, leaves batches, the
\* cursor, totalRecords, processedRecords and results as they were, also
\* while a session is running; the checkpoint is left as it was too, unless
\* checkPendingImport itself clears it after the question was declined.
PendingCheckIsPure ==
    [][checks' = checks + 1 =>
          /\ batches' = batches
          /\ currentBatchIndex' = currentBatchIndex
          /\ totalRecords' = totalRecords
          /\ processedRecords' = processedRecords
          /\ results' = results
          /\ cache' \in {cache, NoCache}]_vars

\* C38: cursor bounds: the cursor is between 0 and the number of batches;
\* every batch before the cursor has status success or error and every
\* batch after the one at the cursor has status pending.
CursorBounds ==
    /\ currentBatchIndex >= 0
    /\ currentBatchIndex <= Len(batches)
    /\ \A i \in 1..Len(batches) :
           /\ i <= currentBatchIndex => Ended(batches[i].status)
           /\ i > currentBatchIndex + 1 => batches[i].status = "pending"

====
